---- MODULE Spec2Model ----
(***************************************************************************)
(* A model of pge/util.py of graph_def_editor: the ControlOutputs index,   *)
(* the tree walkers flatten_tree / transform_tree, the AttrValue codec,    *)
(* and the copy engine / graph_replace that the tests drive.               *)
(***************************************************************************)
EXTENDS Integers, Sequences, FiniteSets, TLC

(***************************************************************************)
(* Bounds of the model.                                                    *)
(***************************************************************************)
\* number of node ids a graph may hold
NumNodes == 3
\* graph.version is capped: no mutation once it reaches MaxVersion
MaxVersion == 3
\* longest control_inputs list of one node (duplicates allowed)
MaxCtrl == 2

\* longest list handed to get_unique_graph
MaxTops == 3
\* longest list or tuple handed to the AttrValue codec
MaxListLen == 2
\* deepest nesting of the trees handed to the tree walkers
MaxDepth == 3

NodeIds == 1..NumNodes

None == "None"

(***************************************************************************)
(* Generic helpers.                                                        *)
(***************************************************************************)
Range(s) == {s[i] : i \in 1..Len(s)}

NoDup(s) == \A i, j \in 1..Len(s) : i # j => s[i] # s[j]

InSeq(x, s) == \E i \in 1..Len(s) : s[i] = x

\* the empty Python dict
EmptyDict == [k \in {} |-> <<>>]

\* sequences over S of length at most n
RECURSIVE SeqsUpTo(_, _)
SeqsUpTo(S, n) ==
  IF n = 0 THEN {<<>>}
  ELSE LET shorter == SeqsUpTo(S, n - 1)
       IN shorter \cup {Append(s, x) : s \in {t \in shorter : Len(t) = n - 1}, x \in S}

\* the ascending sequence of a finite set of integers
RECURSIVE SortedSeq(_)
SortedSeq(S) ==
  IF S = {} THEN <<>>
  ELSE LET m == CHOOSE x \in S : \A y \in S : x <= y
       IN <<m>> \o SortedSeq(S \ {m})

(***************************************************************************)
(* Names are sequences of one-character strings (util.py 379-434).         *)
(***************************************************************************)
\* str.startswith
startswith(s, p) == Len(p) <= Len(s) /\ SubSeq(s, 1, Len(p)) = p

\* str.rfind of one character: the last position of ch in s, 0 when absent
\* (Python's -1)
rfind(s, ch) ==
  IF \E i \in 1..Len(s) : s[i] = ch
  THEN CHOOSE i \in 1..Len(s) : s[i] = ch /\ \A j \in (i + 1)..Len(s) : s[j] # ch
  ELSE 0

\* a finalize that ends every scope, the root scope too, with a slash
scope_finalize_always(scope) ==
  IF scope = <<>> \/ scope[Len(scope)] # "/" THEN Append(scope, "/") ELSE scope

scope_finalize(scope) ==
  IF scope # <<>> /\ scope[Len(scope)] # "/" THEN Append(scope, "/") ELSE scope

scope_dirname(scope) ==
  LET slash == rfind(scope, "/")
  IN IF slash = 0 THEN <<>> ELSE SubSeq(scope, 1, slash)

scope_basename(scope) ==
  LET slash == rfind(scope, "/")
  IN IF slash = 0 THEN scope ELSE SubSeq(scope, slash + 1, Len(scope))

_DEFAULT_PLACEHOLDER_PREFIX == <<"g", "e", "p", "h">>

\* "{}".format(i) of a non-negative integer
RECURSIVE format_int(_)
format_int(i) ==
  LET digits == <<"0", "1", "2", "3", "4", "5", "6", "7", "8", "9">>
  IN IF i < 10 THEN <<digits[i + 1]>>
     ELSE Append(format_int(i \div 10), digits[(i % 10) + 1])

\* the absent scope argument (scope=None) and the absent tensor (t=None)
NoScope == <<None>>
NoTensor == [node_name |-> <<None>>, value_index |-> 0]

\* placeholder_name(t, scope, prefix); t is [node_name, value_index]
placeholder_name(t, scope, prefix) ==
  LET scope1 == IF scope # NoScope THEN scope_finalize(scope) ELSE scope
  IN IF t # NoTensor
     THEN LET op_dirname == scope_dirname(t.node_name)
              op_basename == scope_basename(t.node_name)
              scope2 == IF scope1 = NoScope THEN op_dirname ELSE scope1
              ph_name == IF startswith(op_basename, prefix \o <<"_", "_">>)
                         THEN op_basename
                         ELSE prefix \o <<"_", "_">> \o op_basename \o <<"_">>
                              \o format_int(t.value_index)
          IN scope2 \o ph_name
     ELSE LET scope2 == IF scope1 = NoScope THEN <<>> ELSE scope1
          IN scope2 \o prefix

VARIABLES
  nodes,            \* graph.nodes: the node ids of the graph, in graph order
  control_inputs,   \* node.control_inputs of every node id: a list of node ids
  inputs,           \* the data inputs of every node id: a list of tensors
  version,          \* graph.version
  _control_outputs, \* ControlOutputs._control_outputs: dict node -> list of nodes
  _version,         \* ControlOutputs._version
  co_call,          \* the last call made on the graph or the index, with its result
  call,             \* the running copy / graph_replace call: its arguments and position
  dst,              \* the destination graph of that call
  info,             \* the correspondence map of that call
  tree,             \* the tree handed to flatten_tree / transform_tree
  walk,             \* the last tree-walker call: its arguments and outcome
  value,            \* the Python value handed to python_type_to_attr_value
  codec,            \* the codec calls made on it: their outcomes
  ph_call,          \* the last placeholder_name call: its arguments and result
  fce,              \* the last find_corresponding_elem call: arguments and outcome
  gug               \* the last get_unique_graph call: arguments and outcome

graphVars == <<nodes, control_inputs, inputs, version>>
coVars == <<_control_outputs, _version, co_call>>
engineVars == <<call, dst, info>>
treeVars == <<tree, walk>>
codecVars == <<value, codec>>
utilVars == <<ph_call, fce, gug>>
vars == <<graphVars, coVars, engineVars, treeVars, codecVars, utilVars>>

\* what the calls on one component leave alone
indexFrame == <<engineVars, treeVars, codecVars, utilVars>>
engineFrame == <<graphVars, coVars, treeVars, codecVars, utilVars>>
treeFrame == <<graphVars, coVars, engineVars, codecVars, utilVars>>
codecFrame == <<graphVars, coVars, engineVars, treeVars, utilVars>>
utilFrame == <<graphVars, coVars, engineVars, treeVars, codecVars>>

(***************************************************************************)
(* The graph collaborator (pge.Graph / pge.Node): every structural         *)
(* mutation advances graph.version.                                        *)
(***************************************************************************)
Mutated(what) == co_call' = [op |-> what, arg |-> None, ret |-> None]

add_control_input(c, d) ==
  /\ version < MaxVersion
  /\ InSeq(c, nodes) /\ InSeq(d, nodes) /\ c # d
  /\ Len(control_inputs[c]) < MaxCtrl
  /\ control_inputs' = [control_inputs EXCEPT ![c] = Append(@, d)]
  /\ version' = version + 1
  /\ Mutated("mutate")
  /\ UNCHANGED <<nodes, inputs, _control_outputs, _version, indexFrame>>

remove_control_input(c, d) ==
  /\ version < MaxVersion
  /\ InSeq(c, nodes) /\ InSeq(d, control_inputs[c])
  /\ control_inputs' = [control_inputs EXCEPT ![c] = SelectSeq(@, LAMBDA x : x # d)]
  /\ version' = version + 1
  /\ Mutated("mutate")
  /\ UNCHANGED <<nodes, inputs, _control_outputs, _version, indexFrame>>

add_node(n) ==
  /\ version < MaxVersion
  /\ ~InSeq(n, nodes)
  /\ nodes' = Append(nodes, n)
  /\ version' = version + 1
  /\ Mutated("mutate")
  /\ UNCHANGED <<control_inputs, inputs, _control_outputs, _version, indexFrame>>

remove_node(n) ==
  /\ version < MaxVersion
  /\ InSeq(n, nodes)
  /\ \A m \in NodeIds : ~InSeq(<<n, 0>>, inputs[m])
  /\ nodes' = SelectSeq(nodes, LAMBDA x : x # n)
  /\ control_inputs' = [m \in NodeIds |->
                          IF m = n THEN <<>>
                          ELSE SelectSeq(control_inputs[m], LAMBDA x : x # n)]
  /\ version' = version + 1
  /\ Mutated("mutate")
  /\ UNCHANGED <<inputs, _control_outputs, _version, indexFrame>>

(***************************************************************************)
(* ControlOutputs (util.py 325-376).                                       *)
(***************************************************************************)
\* an inner loop that overwrites the list of a control input instead of
\* appending to it
RECURSIVE BuildInputsOverwrite(_, _, _)
BuildInputsOverwrite(co, node, cis) ==
  IF cis = <<>> THEN co
  ELSE LET control_input == Head(cis)
           co1 == IF control_input \notin DOMAIN co
                  THEN co @@ (control_input :> <<>>)
                  ELSE co
       IN BuildInputsOverwrite([co1 EXCEPT ![control_input] = <<node>>], node, Tail(cis))

\* the inner loop of _build: node is appended to the list of each of its
\* control inputs, unless it is there already
RECURSIVE BuildInputs(_, _, _)
BuildInputs(co, node, cis) ==
  IF cis = <<>> THEN co
  ELSE LET control_input == Head(cis)
           co1 == IF control_input \notin DOMAIN co
                  THEN co @@ (control_input :> <<>>)
                  ELSE co
           co2 == IF ~InSeq(node, co1[control_input])
                  THEN [co1 EXCEPT ![control_input] = Append(@, node)]
                  ELSE co1
       IN BuildInputs(co2, node, Tail(cis))

\* the outer loop of _build over graph.nodes
RECURSIVE BuildNodes(_, _, _)
BuildNodes(co, ns, cins) ==
  IF ns = <<>> THEN co
  ELSE BuildNodes(BuildInputs(co, Head(ns), cins[Head(ns)]), Tail(ns), cins)

\* a _build that forgets to clear the dictionary first
BuildNoClear(old, ns, cins) == BuildNodes(old, ns, cins)

\* the dictionary _build leaves: cleared, then filled from the graph
BuildDict(old, ns, cins) == BuildNodes(EmptyDict, ns, cins)

_build ==
  /\ _control_outputs' = BuildDict(_control_outputs, nodes, control_inputs)
  /\ _version' = version

\* ControlOutputs(g): a new index over the graph as it is now
__init__ ==
  /\ _build
  /\ co_call' = [op |-> "__init__", arg |-> None, ret |-> None]
  /\ UNCHANGED <<graphVars, indexFrame>>

\* an update that records the new version without rebuilding
UpdateNoRebuild ==
  /\ _version' = version
  /\ UNCHANGED _control_outputs
  /\ co_call' = [op |-> "update", arg |-> None, ret |-> None]
  /\ UNCHANGED <<graphVars, indexFrame>>

update ==
  /\ IF _version # version THEN _build ELSE UNCHANGED <<_control_outputs, _version>>
  /\ co_call' = [op |-> "update", arg |-> None, ret |-> None]
  /\ UNCHANGED <<graphVars, indexFrame>>

\* what get(op) returns on a dictionary
Lookup(co, op) == IF op \in DOMAIN co THEN co[op] ELSE <<>>

\* a get that adds an empty entry for a node it does not find
GetInserting(op) ==
  /\ co_call' = [op |-> "get", arg |-> op, ret |-> Lookup(_control_outputs, op)]
  /\ _control_outputs' = IF op \in DOMAIN _control_outputs THEN _control_outputs
                         ELSE _control_outputs @@ (op :> <<>>)
  /\ UNCHANGED <<graphVars, _version, indexFrame>>

get(op) ==
  /\ co_call' = [op |-> "get", arg |-> op, ret |-> Lookup(_control_outputs, op)]
  /\ UNCHANGED <<graphVars, _control_outputs, _version, indexFrame>>

get_all ==
  /\ co_call' = [op |-> "get_all", arg |-> None, ret |-> _control_outputs]
  /\ UNCHANGED <<graphVars, _control_outputs, _version, indexFrame>>

(***************************************************************************)
(* The copy engine and graph_replace, modelled from the specification      *)
(* (sections 4.6 to 4.8); the tests in transform_test.py drive them.       *)
(* Every node has one output tensor <<n, 0>>; data inputs come from nodes  *)
(* of a smaller id, so ascending ids are a data-dependency order.          *)
(***************************************************************************)
Letters == <<"a", "b", "c", "d", "k", "m", "n", "o">>

\* the name of source node n, and the tensor of the source graph by name
NodeName(n) == <<Letters[n]>>
NamedTensor(t) == <<NodeName(t[1]), t[2]>>

EmptyGraph ==
  [nodes |-> <<>>, inputs |-> EmptyDict, control_inputs |-> EmptyDict,
   op_type |-> EmptyDict, version |-> 0]

EmptyInfo == [transformed_ops |-> EmptyDict, transformed_ts |-> EmptyDict]

IdleCall ==
  [pc |-> "idle", mode |-> "none", sel |-> {}, todo |-> <<>>, dst_scope |-> <<>>,
   targets |-> <<>>, replacements |-> EmptyDict, result |-> <<>>, error |-> None]

\* the source graph seen as a graph keyed by node name: graph_replace adds the
\* copies to the graph it reads
SourceAsGraph ==
  LET names == {NodeName(n) : n \in Range(nodes)}
      id(nm) == CHOOSE n \in Range(nodes) : NodeName(n) = nm
  IN [nodes |-> [i \in 1..Len(nodes) |-> NodeName(nodes[i])],
      inputs |-> [nm \in names |->
                    [i \in 1..Len(inputs[id(nm)]) |-> NamedTensor(inputs[id(nm)][i])]],
      control_inputs |-> [nm \in names |->
                    [i \in 1..Len(control_inputs[id(nm)]) |->
                       NodeName(control_inputs[id(nm)][i])]],
      op_type |-> [nm \in names |-> "Op"],
      version |-> version]

\* the graph makes a requested name unique: name, name_1, name_2, ...
RECURSIVE UniqueSuffix(_, _, _)
UniqueSuffix(g, name, k) ==
  LET cand == name \o <<"_">> \o format_int(k)
  IN IF ~InSeq(cand, g.nodes) THEN cand ELSE UniqueSuffix(g, name, k + 1)

UniqueName(g, name) == IF ~InSeq(name, g.nodes) THEN name ELSE UniqueSuffix(g, name, 1)

\* graph.add_node(name, op_type) followed by node.set_inputs(ins)
AddNode(g, name, op, ins) ==
  [nodes |-> Append(g.nodes, name),
   inputs |-> g.inputs @@ (name :> ins),
   control_inputs |-> g.control_inputs @@ (name :> <<>>),
   op_type |-> g.op_type @@ (name :> op),
   version |-> g.version + 1]

\* step 2 of the engine: the data inputs of one node, resolved in slot order.
\* st is [dst, info, new_inputs].
RECURSIVE ResolveInputs(_, _, _)
ResolveInputs(st, ts, c) ==
  IF ts = <<>> THEN st
  ELSE LET t == Head(ts)
       IN IF t \in DOMAIN st.info.transformed_ts
          THEN \* already transformed (or replaced): through the map
               ResolveInputs([st EXCEPT !.new_inputs =
                                Append(@, st.info.transformed_ts[t])], Tail(ts), c)
          ELSE IF c.mode = "replace"
          THEN \* graph_replace: an input outside the closure keeps its tensor
               ResolveInputs([st EXCEPT !.new_inputs = Append(@, NamedTensor(t))],
                             Tail(ts), c)
          ELSE \* outside the selection: a placeholder, recorded in the map
               LET ph == UniqueName(st.dst,
                           placeholder_name([node_name |-> NodeName(t[1]),
                                             value_index |-> t[2]],
                                            c.dst_scope, _DEFAULT_PLACEHOLDER_PREFIX))
               IN ResolveInputs(
                    [dst |-> AddNode(st.dst, ph, "Placeholder", <<>>),
                     info |-> [st.info EXCEPT !.transformed_ts = @ @@ (t :> <<ph, 0>>)],
                     new_inputs |-> Append(st.new_inputs, <<ph, 0>>)],
                    Tail(ts), c)

\* a handler that copies the node but records no output tensor in the map
CopyHandlerNoTensors(st, n, c) ==
  LET name_ == UniqueName(st.dst, scope_finalize(c.dst_scope) \o NodeName(n))
  IN [dst |-> AddNode(st.dst, name_, "Op", st.new_inputs),
      info |-> [st.info EXCEPT !.transformed_ops = @ @@ (n :> name_)],
      new_inputs |-> <<>>]

\* steps 3 and 5: the default handler copies node n under the destination
\* scope and records the node and its output tensor in the map
copy_op_handler(st, n, c) ==
  LET name_ == UniqueName(st.dst, scope_finalize(c.dst_scope) \o NodeName(n))
  IN [dst |-> AddNode(st.dst, name_, "Op", st.new_inputs),
      info |-> [transformed_ops |-> st.info.transformed_ops @@ (n :> name_),
                transformed_ts |-> (<<n, 0>> :> <<name_, 0>>) @@ st.info.transformed_ts],
      new_inputs |-> <<>>]

\* step 4, for one control input d and its control outputs cs (from the
\* ControlOutputs index of the source graph). st is [dst, error].
RECURSIVE ConnectOutputs(_, _, _, _)
ConnectOutputs(st, d, cs, tops) ==
  IF cs = <<>> \/ st.error # None THEN st
  ELSE LET c == Head(cs)
       IN IF c \notin DOMAIN tops
          THEN [st EXCEPT !.error = "StructuralError"]
          ELSE ConnectOutputs(
                 [st EXCEPT !.dst.control_inputs[tops[c]] =
                    IF InSeq(tops[d], @) THEN @ ELSE Append(@, tops[d]),
                            !.dst.version = @ + 1],
                 d, Tail(cs), tops)

\* step 4: the second pass over the selected nodes ds, in order
RECURSIVE ConnectControl(_, _, _, _)
ConnectControl(st, ds, co, tops) ==
  IF ds = <<>> \/ st.error # None THEN st
  ELSE ConnectControl(ConnectOutputs(st, Head(ds), Lookup(co, Head(ds)), tops),
                      Tail(ds), co, tops)

\* the correspondence map's two lookups; NotFound is <<>>
transformed_op(n) ==
  IF n \in DOMAIN info.transformed_ops THEN <<info.transformed_ops[n]>> ELSE <<>>

transformed_t(t) ==
  IF t \in DOMAIN info.transformed_ts THEN <<info.transformed_ts[t]>> ELSE <<>>

original_op(name_) ==
  LET keys == {k \in DOMAIN info.transformed_ops : info.transformed_ops[k] = name_}
  IN IF keys = {} THEN <<>> ELSE <<CHOOSE k \in keys : \A j \in keys : k <= j>>

original_t(t_) ==
  LET keys == {k \in DOMAIN info.transformed_ts : info.transformed_ts[k] = t_}
  IN IF keys = {} THEN <<>> ELSE <<CHOOSE k \in keys : \A j \in keys : k[1] <= j[1]>>

\* pge.copy(sgv, dst_graph, dst_scope) of the selection S into an empty graph
copy(S, scope) ==
  /\ call.pc = "idle"
  /\ call' = [IdleCall EXCEPT !.pc = "running", !.mode = "copy", !.sel = S,
                              !.todo = SortedSeq(S), !.dst_scope = scope]
  /\ dst' = EmptyGraph
  /\ info' = EmptyInfo
  /\ UNCHANGED engineFrame

\* the engine copies the next node of the selection
copy_node ==
  /\ call.pc = "running"
  /\ call.todo # <<>>
  /\ LET n == Head(call.todo)
         st0 == [dst |-> dst, info |-> info, new_inputs |-> <<>>]
         st1 == ResolveInputs(st0, inputs[n], call)
         st2 == copy_op_handler(st1, n, call)
     IN /\ dst' = st2.dst
        /\ info' = st2.info
  /\ call' = [call EXCEPT !.todo = Tail(@)]
  /\ UNCHANGED engineFrame

\* the result tree of graph_replace: every target through the map, the
\* original tensor when the map does not hold it
ResultOf(targets, tts) ==
  [i \in 1..Len(targets) |->
     IF targets[i] \in DOMAIN tts THEN tts[targets[i]] ELSE NamedTensor(targets[i])]

\* the second pass, after every node is copied; then the call returns
connect_control ==
  /\ call.pc = "running"
  /\ call.todo = <<>>
  /\ LET co == BuildDict(EmptyDict, nodes, control_inputs)
         st == ConnectControl([dst |-> dst, error |-> None], SortedSeq(call.sel),
                              co, info.transformed_ops)
     IN /\ dst' = st.dst
        /\ call' = [call EXCEPT
                      !.pc = IF st.error = None THEN "done" ELSE "error",
                      !.error = st.error,
                      !.result = IF st.error = None
                                 THEN ResultOf(call.targets, info.transformed_ts)
                                 ELSE <<>>]
  /\ UNCHANGED <<engineFrame, info>>

(***************************************************************************)
(* Python values handed to the tree walkers (util.py 105-171). A value is  *)
(* a record: k its kind, tag a number (the payload of a leaf, the type of  *)
(* a named tuple), names its keys, fields or characters, items its         *)
(* children in iteration order.                                            *)
(***************************************************************************)
Term(k, tag, names, items) == [k |-> k, tag |-> tag, names |-> names, items |-> items]

\* a value iter() refuses: a number, a Tensor
Leaf(v) == Term("leaf", v, <<>>, <<>>)
\* a pge.Node
NodeObj(v) == Term("Node", v, <<>>, <<>>)
List(xs) == Term("list", 0, <<>>, xs)
Tuple(xs) == Term("tuple", 0, <<>>, xs)
Dict(ks, xs) == Term("dict", 0, ks, xs)
OrderedDict(ks, xs) == Term("OrderedDict", 0, ks, xs)
\* the fields of named-tuple type ty: OneTensor(t), Pair(a, b)
_fields(ty) == IF ty = 1 THEN <<"t">> ELSE <<"a", "b">>
NamedTuple(ty, xs) == Term("namedtuple", ty, _fields(ty), xs)
\* an iterable that is neither dict, tuple nor Sequence, such as ListView
ListView(xs) == Term("ListView", 0, <<>>, xs)
Str(cs) == Term("str", 0, cs, <<>>)
\* l = []; l.append(l)
SelfList == Term("selflist", 0, <<>>, <<>>)

isinstance_dict(t) == t.k \in {"dict", "OrderedDict"}
isinstance_tuple(t) == t.k \in {"tuple", "namedtuple"}
hasattr_asdict(t) == t.k = "namedtuple"
isinstance_Sequence(t) == t.k \in {"list", "tuple", "namedtuple", "str", "selflist"}

\* is_iterable: False for a Node, else whether iter(obj) succeeds
is_iterable(obj) ==
  IF obj.k = "Node" THEN FALSE
  ELSE obj.k # "leaf"

\* what "for child in tree" yields
Iter(t) ==
  CASE t.k = "str" -> [i \in 1..Len(t.names) |-> Str(<<t.names[i]>>)]
    [] t.k = "selflist" -> <<t>>
    [] isinstance_dict(t) -> [i \in 1..Len(t.names) |-> Str(<<t.names[i]>>)]
    [] OTHER -> t.items

\* the children a dict contributes when its keys are walked
dict_children_keys(t) == [i \in 1..Len(t.names) |-> Str(<<t.names[i]>>)]

\* the children a dict contributes: the values of iteritems(tree)
dict_children(t) == t.items

\* the leaf functions handed to transform_tree
Fns == {"shift", "pair"}

ApplyFn(fn, x) ==
  IF fn = "shift" THEN [x EXCEPT !.tag = @ + 10]
  ELSE Tuple(<<x, x>>)

\* The interpreter's recursion limit (sys.getrecursionlimit()), beyond the
\* depth any well-founded tree of the model needs: a named tuple takes two
\* frames per level.
RecursionLimit == 2 * MaxDepth + 4

Raised(e) == [err |-> e, out |-> <<>>]
Returned(v) == [err |-> None, out |-> v]

\* flatten_tree(tree, leaves) at recursion depth `depth`
RECURSIVE flatten_tree(_, _, _)
RECURSIVE FlattenChildren(_, _, _)
flatten_tree(t, leaves, depth) ==
  IF depth > RecursionLimit THEN Raised("RecursionError")
  ELSE IF isinstance_dict(t) THEN FlattenChildren(dict_children(t), leaves, depth)
  ELSE IF is_iterable(t) THEN FlattenChildren(Iter(t), leaves, depth)
  ELSE Returned(Append(leaves, t))

FlattenChildren(children, leaves, depth) ==
  IF children = <<>> THEN Returned(leaves)
  ELSE LET r == flatten_tree(Head(children), leaves, depth + 1)
       IN IF r.err # None THEN r ELSE FlattenChildren(Tail(children), r.out, depth)

\* a dict branch that always builds a plain dict
rebuild_plain_dict(t, xs) == Dict(t.names, xs)

\* tree.__new__(type(tree)) and res.__init__((k, child') ...): a dict of the
\* type of tree, with its keys
rebuild_dict(t, xs) == Term(t.k, t.tag, t.names, xs)

\* tree._asdict()
_asdict(t) == OrderedDict(t.names, t.items)

\* tree.__new__(type(tree), **d): every field of the type from the keyword
\* of its name
new_namedtuple(t, d) ==
  LET at(f) == CHOOSE i \in 1..Len(d.names) : d.names[i] = f
  IN NamedTuple(t.tag, [i \in 1..Len(_fields(t.tag)) |-> d.items[at(_fields(t.tag)[i])]])

\* iterable_type(...)
new_iterable(iterable_type, xs) == IF iterable_type = "list" THEN List(xs) ELSE Tuple(xs)

\* transform_tree(tree, fn, iterable_type) at recursion depth `depth`; the
\* recursive calls pass tree and fn only, so their iterable_type is tuple
RECURSIVE transform_tree(_, _, _, _)
RECURSIVE TransformChildren(_, _, _, _)
transform_tree(t, fn, iterable_type, depth) ==
  IF depth > RecursionLimit THEN Raised("RecursionError")
  ELSE IF is_iterable(t)
  THEN IF isinstance_dict(t)
       THEN LET r == TransformChildren(t.items, fn, <<>>, depth)
            IN IF r.err # None THEN r ELSE Returned(rebuild_dict(t, r.out))
       ELSE IF isinstance_tuple(t)
       THEN IF hasattr_asdict(t)
            THEN LET r == transform_tree(_asdict(t), fn, "tuple", depth + 1)
                 IN IF r.err # None THEN r ELSE Returned(new_namedtuple(t, r.out))
            ELSE LET r == TransformChildren(t.items, fn, <<>>, depth)
                 IN IF r.err # None THEN r ELSE Returned(Tuple(r.out))
       ELSE IF isinstance_Sequence(t)
       THEN IF t.k = "str"
            THEN \* str.__init__ ignores its argument: the generator never runs
                 Returned(Str(<<>>))
            ELSE LET r == TransformChildren(Iter(t), fn, <<>>, depth)
                 IN IF r.err # None THEN r ELSE Returned(List(r.out))
       ELSE LET r == TransformChildren(Iter(t), fn, <<>>, depth)
            IN IF r.err # None THEN r ELSE Returned(new_iterable(iterable_type, r.out))
  ELSE Returned(ApplyFn(fn, t))

TransformChildren(children, fn, done, depth) ==
  IF children = <<>> THEN Returned(done)
  ELSE LET r == transform_tree(Head(children), fn, "tuple", depth + 1)
       IN IF r.err # None THEN r
          ELSE TransformChildren(Tail(children), fn, Append(done, r.out), depth)

\* the nesting depth of a value
RECURSIVE Depth(_)
Depth(t) ==
  IF t.items = <<>> THEN 0
  ELSE 1 + (LET ds == {Depth(t.items[i]) : i \in 1..Len(t.items)}
            IN CHOOSE d \in ds : \A e \in ds : e <= d)

NoWalk == [op |-> "none", fn |-> None, iterable_type |-> None, err |-> None, out |-> <<>>]

ContainerKinds == {"list", "tuple", "dict", "OrderedDict", "namedtuple", "ListView"}

\* a container of kind k around the children xs (one or two of them)
Container(k, xs) ==
  CASE k = "list" -> List(xs)
    [] k = "tuple" -> Tuple(xs)
    [] k = "dict" -> Dict(SubSeq(<<"k1", "k2">>, 1, Len(xs)), xs)
    [] k = "OrderedDict" -> OrderedDict(SubSeq(<<"k1", "k2">>, 1, Len(xs)), xs)
    [] k = "namedtuple" -> NamedTuple(Len(xs), xs)
    [] OTHER -> ListView(xs)

\* the ways a caller nests a tree: any container holding a leaf and the
\* tree, or a list or a one-field named tuple holding the tree alone
Wraps == (ContainerKinds \X {FALSE}) \cup ({"list", "namedtuple"} \X {TRUE})

\* the caller nests the tree in one more container, alone or after a leaf
wrap(k, alone) ==
  /\ walk.op = "none"
  /\ Depth(tree) < MaxDepth
  /\ tree' = Container(k, IF alone THEN <<tree>> ELSE <<Leaf(2), tree>>)
  /\ UNCHANGED <<walk, treeFrame>>

call_flatten_tree ==
  /\ walk.op = "none"
  /\ LET r == flatten_tree(tree, <<>>, 1)
     IN walk' = [op |-> "flatten_tree", fn |-> None, iterable_type |-> None,
                 err |-> r.err, out |-> r.out]
  /\ UNCHANGED <<tree, treeFrame>>

call_transform_tree(fn, iterable_type) ==
  /\ walk.op = "none"
  /\ LET r == transform_tree(tree, fn, iterable_type, 1)
     IN walk' = [op |-> "transform_tree", fn |-> fn, iterable_type |-> iterable_type,
                 err |-> r.err, out |-> r.out]
  /\ UNCHANGED <<tree, treeFrame>>

IdleTree == tree = Leaf(0) /\ walk = NoWalk

IdleEngine == call = IdleCall /\ dst = EmptyGraph /\ info = EmptyInfo

(***************************************************************************)
(* AttrValue codec (util.py 576-687). A Python value is a record: t its    *)
(* type, x its payload as a sequence of integers (the code points of a     *)
(* str, the value of an int, bool, DType or integer-valued float, the      *)
(* dimensions of a TensorShape with -1 for an unknown one, the entries of  *)
(* an ndarray), elems the elements of a list or tuple, av the message of   *)
(* a value that already is an AttrValue.                                   *)
(***************************************************************************)
EmptyListValue ==
  [s |-> <<>>, i |-> <<>>, f |-> <<>>, b |-> <<>>, type |-> <<>>, shape |-> <<>>,
   tensor |-> <<>>]

EmptyTensorProto == [dims |-> <<>>, vals |-> <<>>]

\* tf.AttrValue(): no member of the oneof set, every field at its default
EmptyAttrValue ==
  [which |-> "none", s |-> <<>>, i |-> 0, f |-> 0, b |-> FALSE, type |-> 0,
   shape |-> <<>>, tensor |-> EmptyTensorProto, list |-> EmptyListValue]

PyVal(t, x, elems, av) == [t |-> t, x |-> x, elems |-> elems, av |-> av]
PyStr(cps) == PyVal("str", cps, <<>>, EmptyAttrValue)
PyInt(n) == PyVal("int", <<n>>, <<>>, EmptyAttrValue)
PyFloat(m) == PyVal("float", <<m>>, <<>>, EmptyAttrValue)
PyBool(b) == PyVal("bool", <<IF b THEN 1 ELSE 0>>, <<>>, EmptyAttrValue)
PyDType(enum) == PyVal("DType", <<enum>>, <<>>, EmptyAttrValue)
PyTensorShape(dims) == PyVal("TensorShape", dims, <<>>, EmptyAttrValue)
PyNdarray(vals) == PyVal("ndarray", vals, <<>>, EmptyAttrValue)
PyList(elems) == PyVal("list", <<>>, elems, EmptyAttrValue)
PyTuple(elems) == PyVal("tuple", <<>>, elems, EmptyAttrValue)
PyAttrValue(av) == PyVal("AttrValue", <<>>, <<>>, av)
PyNone == PyVal("NoneType", <<>>, <<>>, EmptyAttrValue)

\* isinstance(v, ty): bool is a subclass of int
isinstance(v, ty) ==
  IF ty = "int" THEN v.t \in {"int", "bool"}
  ELSE v.t = ty

\* tf.compat.as_bytes: the UTF-8 encoding of a str
RECURSIVE as_bytes(_)
as_bytes(cps) ==
  IF cps = <<>> THEN <<>>
  ELSE (IF Head(cps) < 128 THEN <<Head(cps)>>
        ELSE <<192 + (Head(cps) \div 64), 128 + (Head(cps) % 64)>>)
       \o as_bytes(Tail(cps))

\* tf.compat.as_str: the str a UTF-8 byte string decodes to
RECURSIVE as_str(_)
as_str(bytes) ==
  IF bytes = <<>> THEN <<>>
  ELSE IF Head(bytes) < 128 THEN <<Head(bytes)>> \o as_str(Tail(bytes))
  ELSE <<(bytes[1] - 192) * 64 + (bytes[2] - 128)>> \o as_str(Tail(Tail(bytes)))

\* the float field of the message is single precision: a double m in
\* 0 .. 2^25 is stored rounded to 24 significant bits, ties to even
to_float32(m) ==
  IF m < 16777216 \/ m % 2 = 0 THEN m
  ELSE IF (m \div 2) % 2 = 0 THEN 2 * (m \div 2)
  ELSE 2 * ((m \div 2) + 1)

\* TensorShape.as_proto() and tf.TensorShape(proto)
as_proto(dims) == [i \in 1..Len(dims) |-> [size |-> dims[i]]]
from_proto(shape) == [i \in 1..Len(shape) |-> shape[i].size]

\* tf.make_tensor_proto(values=...) and tf.make_ndarray(proto)
make_tensor_proto(vals) == [dims |-> <<Len(vals)>>, vals |-> vals]
make_ndarray(tensor) == tensor.vals

Raise(e) == [err |-> e, av |-> EmptyAttrValue, out |-> PyNone]

_python_type_to_attr_list_elem(lv, elem) ==
  IF isinstance(elem, "str")
  THEN [err |-> None, lv |-> [lv EXCEPT !.s = Append(@, as_bytes(elem.x))]]
  ELSE IF isinstance(elem, "int")
  THEN [err |-> None, lv |-> [lv EXCEPT !.i = Append(@, elem.x[1])]]
  ELSE IF isinstance(elem, "float")
  THEN [err |-> None, lv |-> [lv EXCEPT !.f = Append(@, to_float32(elem.x[1]))]]
  ELSE IF isinstance(elem, "bool")
  THEN [err |-> None, lv |-> [lv EXCEPT !.b = Append(@, elem.x[1] = 1)]]
  ELSE IF isinstance(elem, "DType")
  THEN [err |-> None, lv |-> [lv EXCEPT !.type = Append(@, elem.x[1])]]
  ELSE IF isinstance(elem, "TensorShape")
  THEN [err |-> None, lv |-> [lv EXCEPT !.shape = Append(@, as_proto(elem.x))]]
  ELSE IF isinstance(elem, "ndarray")
  THEN [err |-> None, lv |-> [lv EXCEPT !.tensor = Append(@, make_tensor_proto(elem.x))]]
  ELSE [err |-> "ValueError", lv |-> lv]

\* an element loop that skips what it cannot convert
RECURSIVE EncodeElemsSkipping(_, _)
EncodeElemsSkipping(lv, elems) ==
  IF elems = <<>> THEN [err |-> None, lv |-> lv]
  ELSE LET r == _python_type_to_attr_list_elem(lv, Head(elems))
       IN EncodeElemsSkipping(r.lv, Tail(elems))

\* for elem in value: _python_type_to_attr_list_elem(list_value, elem)
RECURSIVE EncodeElems(_, _)
EncodeElems(lv, elems) ==
  IF elems = <<>> THEN [err |-> None, lv |-> lv]
  ELSE LET r == _python_type_to_attr_list_elem(lv, Head(elems))
       IN IF r.err # None THEN r ELSE EncodeElems(r.lv, Tail(elems))

Encoded(av) == [err |-> None, av |-> av, out |-> PyNone]

python_type_to_attr_value(v) ==
  IF isinstance(v, "list") \/ isinstance(v, "tuple")
  THEN IF 0 = Len(v.elems)
       THEN Encoded([EmptyAttrValue EXCEPT !.which = "list"])
       ELSE LET r == EncodeElems(EmptyListValue, v.elems)
            IN IF r.err # None THEN Raise(r.err)
               ELSE Encoded([EmptyAttrValue EXCEPT !.which = "list", !.list = r.lv])
  ELSE IF isinstance(v, "AttrValue") THEN Encoded(v.av)
  ELSE IF isinstance(v, "str")
  THEN Encoded([EmptyAttrValue EXCEPT !.which = "s", !.s = as_bytes(v.x)])
  ELSE IF isinstance(v, "int")
  THEN Encoded([EmptyAttrValue EXCEPT !.which = "i", !.i = v.x[1]])
  ELSE IF isinstance(v, "float")
  THEN Encoded([EmptyAttrValue EXCEPT !.which = "f", !.f = to_float32(v.x[1])])
  ELSE IF isinstance(v, "bool")
  THEN Encoded([EmptyAttrValue EXCEPT !.which = "b", !.b = (v.x[1] = 1)])
  ELSE IF isinstance(v, "DType")
  THEN Encoded([EmptyAttrValue EXCEPT !.which = "type", !.type = v.x[1]])
  ELSE IF isinstance(v, "TensorShape")
  THEN Encoded([EmptyAttrValue EXCEPT !.which = "shape", !.shape = as_proto(v.x)])
  ELSE IF isinstance(v, "ndarray")
  THEN Encoded([EmptyAttrValue EXCEPT !.which = "tensor", !.tensor = make_tensor_proto(v.x)])
  ELSE Raise("ValueError")

\* attr_value.HasField(name), for the members of the oneof
HasField(av, name) == av.which = name

Decoded(av, v) == [err |-> None, av |-> av, out |-> v]

attr_value_to_python_type(av) ==
  IF HasField(av, "s") THEN Decoded(av, PyStr(as_str(av.s)))
  ELSE IF HasField(av, "i") THEN Decoded(av, PyInt(av.i))
  ELSE IF HasField(av, "f") THEN Decoded(av, PyFloat(av.f))
  ELSE IF HasField(av, "b") THEN Decoded(av, PyBool(av.b))
  ELSE IF HasField(av, "type") THEN Decoded(av, PyDType(av.type))
  ELSE IF HasField(av, "shape") THEN Decoded(av, PyTensorShape(from_proto(av.shape)))
  ELSE IF HasField(av, "tensor") THEN Decoded(av, PyNdarray(make_ndarray(av.tensor)))
  ELSE [err |-> "ValueError", av |-> av, out |-> PyNone]

NoCodec == [op |-> "none", err |-> None, av |-> EmptyAttrValue, out |-> PyNone]

call_python_type_to_attr_value ==
  /\ codec.op = "none"
  /\ LET r == python_type_to_attr_value(value)
     IN codec' = [op |-> "encode", err |-> r.err, av |-> r.av, out |-> r.out]
  /\ UNCHANGED <<value, codecFrame>>

\* the message encode returned is handed back to decode
call_attr_value_to_python_type ==
  /\ codec.op = "encode"
  /\ codec.err = None
  /\ LET r == attr_value_to_python_type(codec.av)
     IN codec' = [op |-> "decode", err |-> r.err, av |-> r.av, out |-> r.out]
  /\ UNCHANGED <<value, codecFrame>>

IdleCodec == value = PyNone /\ codec = NoCodec

(***************************************************************************)
(* placeholder_name (util.py 399-434) called on a tensor or on None, then  *)
(* called again on an output of a node that carries the generated name.    *)
(* t ranges over tensors and None.                                         *)
(***************************************************************************)
NoPh ==
  [op |-> "none", t |-> NoTensor, scope |-> NoScope,
   prefix |-> _DEFAULT_PLACEHOLDER_PREFIX, name |-> <<>>, prev |-> <<>>]

call_placeholder_name(t, scope, prefix) ==
  /\ ph_call.op = "none"
  /\ ph_call' = [op |-> "placeholder_name", t |-> t, scope |-> scope,
                 prefix |-> prefix,
                 name |-> placeholder_name(t, scope, prefix), prev |-> <<>>]
  /\ UNCHANGED <<fce, gug, utilFrame>>

\* a node is created under the generated name and a placeholder name is
\* derived from its output i, under the same scope and prefix
rederive(i) ==
  /\ ph_call.op # "none"
  /\ LET t == [node_name |-> ph_call.name, value_index |-> i]
     IN ph_call' = [op |-> "rederive", t |-> t, scope |-> ph_call.scope,
                    prefix |-> ph_call.prefix,
                    name |-> placeholder_name(t, ph_call.scope, ph_call.prefix),
                    prev |-> ph_call.name]
  /\ UNCHANGED <<fce, gug, utilFrame>>

IdlePh == ph_call = NoPh

(***************************************************************************)
(* find_corresponding_elem (util.py 513-546). A target is [kind, name]; a  *)
(* destination graph is the set of its node names, every node having one   *)
(* output, named <node name>:0.                                            *)
(***************************************************************************)
\* the name of output 0 of the node called name
TensorName(name) == name \o <<":", "0">>

\* dst_graph.get_tensor_by_name(name): KeyError when there is none
get_tensor_by_name(g, name) ==
  IF \E n \in g : TensorName(n) = name
  THEN [err |-> None, out |-> [kind |-> "Tensor", name |-> name]]
  ELSE [err |-> "KeyError", out |-> None]

\* dst_graph[name]: KeyError when there is none
get_node_by_name(g, name) ==
  IF name \in g
  THEN [err |-> None, out |-> [kind |-> "Node", name |-> name]]
  ELSE [err |-> "KeyError", out |-> None]

\* str has no method startswidth: looking it up raises AttributeError
\* before the comparison of line 533 is made
find_corresponding_elem(target, dst_graph, dst_scope, src_scope) ==
  IF src_scope # <<>>
  THEN [err |-> "AttributeError", out |-> None]
  ELSE LET src_name == target.name
           dst_name == IF dst_scope # <<>>
                       THEN scope_finalize(dst_scope) \o src_name
                       ELSE src_name
       IN IF target.kind = "Tensor" THEN get_tensor_by_name(dst_graph, dst_name)
          ELSE IF target.kind = "Node" THEN get_node_by_name(dst_graph, dst_name)
          ELSE [err |-> "TypeError", out |-> None]

NoFce ==
  [op |-> "none", target |-> [kind |-> "Node", name |-> <<>>], dst_graph |-> {},
   dst_scope |-> <<>>, src_scope |-> <<>>, err |-> None, out |-> None]

call_find_corresponding_elem(target, dst_graph, dst_scope, src_scope) ==
  /\ fce.op = "none"
  /\ LET r == find_corresponding_elem(target, dst_graph, dst_scope, src_scope)
     IN fce' = [op |-> "find_corresponding_elem", target |-> target,
                dst_graph |-> dst_graph, dst_scope |-> dst_scope,
                src_scope |-> src_scope, err |-> r.err, out |-> r.out]
  /\ UNCHANGED <<ph_call, gug, utilFrame>>

(***************************************************************************)
(* get_unique_graph (util.py 190-225). tops is [kind, graph, elems]: a     *)
(* Graph (its id in graph), a list (its elements in elems) or a value that *)
(* is neither; an element is [kind, graph]. check_types is                 *)
(* [given, bare, types]: None, one bare type, or a tuple of types.         *)
(***************************************************************************)
GugTypesNone == [given |-> FALSE, bare |-> FALSE, types |-> {}]

\* the result of a call: out is <<g>> for a graph g, <<>> for None
GugRaise(e) == [err |-> e, out |-> <<>>]
GugReturn(g) == [err |-> None, out |-> g]

\* a loop that takes the graph of the first element and compares no other
RECURSIVE GugLoopFirstGraph(_, _, _)
GugLoopFirstGraph(elems, g, check_types) ==
  IF elems = <<>> THEN GugReturn(g)
  ELSE LET op == Head(elems)
       IN IF op.kind \notin check_types THEN GugRaise("TypeError")
          ELSE IF g = <<>> THEN GugLoopFirstGraph(Tail(elems), <<op.graph>>, check_types)
          ELSE GugLoopFirstGraph(Tail(elems), g, check_types)

\* for op in tops: ... (lines 215-222); g is <<>> while it is None
RECURSIVE GugLoop(_, _, _)
GugLoop(elems, g, check_types) ==
  IF elems = <<>> THEN GugReturn(g)
  ELSE LET op == Head(elems)
       IN IF op.kind \notin check_types THEN GugRaise("TypeError")
          ELSE IF g = <<>> THEN GugLoop(Tail(elems), <<op.graph>>, check_types)
          ELSE IF g # <<op.graph>> THEN GugRaise("ValueError")
          ELSE GugLoop(Tail(elems), g, check_types)

get_unique_graph(tops, check_types, none_if_empty) ==
  IF tops.kind = "Graph" THEN GugReturn(<<tops.graph>>)
  ELSE IF tops.kind # "list" THEN GugRaise("TypeError")
  ELSE LET types == IF ~check_types.given THEN {"Node", "Tensor"}
                    ELSE check_types.types
           r == GugLoop(tops.elems, <<>>, types)
       IN IF r.err # None THEN r
          ELSE IF r.out = <<>> /\ ~none_if_empty THEN GugRaise("ValueError")
          ELSE r

NoGug ==
  [op |-> "none", tops |-> [kind |-> "list", graph |-> 0, elems |-> <<>>],
   check_types |-> GugTypesNone, none_if_empty |-> FALSE, err |-> None, out |-> <<>>]

call_get_unique_graph(tops, check_types, none_if_empty) ==
  /\ gug.op = "none"
  /\ LET r == get_unique_graph(tops, check_types, none_if_empty)
     IN gug' = [op |-> "get_unique_graph", tops |-> tops, check_types |-> check_types,
                none_if_empty |-> none_if_empty, err |-> r.err, out |-> r.out]
  /\ UNCHANGED <<ph_call, fce, utilFrame>>

IdleUtil == IdlePh /\ fce = NoFce /\ gug = NoGug

(***************************************************************************)
(* ControlOutputs(g) on a graph of NumNodes nodes without edges; the graph *)
(* is then edited while the index lives.                                   *)
(***************************************************************************)
Init ==
  /\ nodes \in {SortedSeq(1..k) : k \in 1..NumNodes}
  /\ control_inputs = [n \in NodeIds |-> <<>>]
  /\ inputs = [n \in NodeIds |-> <<>>]
  /\ version = 0
  /\ _control_outputs = BuildDict(EmptyDict, nodes, control_inputs)
  /\ _version = version
  /\ co_call = [op |-> "__init__", arg |-> None, ret |-> None]
  /\ IdleEngine
  /\ IdleUtil
  /\ IdleTree
  /\ IdleCodec

Next ==
  \/ \E c, d \in NodeIds : add_control_input(c, d)
  \/ \E c, d \in NodeIds : remove_control_input(c, d)
  \/ \E n \in NodeIds : add_node(n)
  \/ \E n \in NodeIds : remove_node(n)
  \/ __init__
  \/ update
  \/ \E op \in NodeIds : get(op)
  \/ get_all

Spec == Init /\ [][Next]_vars

(***************************************************************************)
(* graph_replace (specification section 4.8).                              *)
(***************************************************************************)
\* node n reads a key, or reads the output of a node that does
RECURSIVE DependsOnKey(_, _)
DependsOnKey(n, keys) ==
  \E i \in 1..Len(inputs[n]) :
    inputs[n][i] \in keys \/ DependsOnKey(inputs[n][i][1], keys)

\* the backward walk from a set of nodes; it never passes through a key
RECURSIVE Backward(_, _, _)
Backward(frontier, seen, keys) ==
  IF frontier = {} THEN seen
  ELSE LET n == CHOOSE x \in frontier : TRUE
           preds == {inputs[n][i][1] :
                       i \in {j \in 1..Len(inputs[n]) : inputs[n][j] \notin keys}}
       IN Backward((frontier \cup preds) \ (seen \cup {n}), seen \cup {n}, keys)

\* a closure that keeps the nodes no key reaches
ReplaceClosureAll(target_ts, keys) ==
  Backward({t[1] : t \in {u \in Range(target_ts) : u \notin keys}}, {}, keys)

\* the nodes to copy: those the targets depend on, not through a key, that
\* themselves depend on a key
ReplaceClosure(target_ts, keys) ==
  LET seeds == {t[1] : t \in {u \in Range(target_ts) : u \notin keys}}
  IN {n \in Backward(seeds, {}, keys) : DependsOnKey(n, keys)}

\* a graph_replace that does not enter the replacement into the map
graph_replace_no_alias(target_ts, X, X2) ==
  /\ call.pc = "idle"
  /\ X # X2
  /\ LET S == ReplaceClosure(target_ts, {X})
     IN call' = [IdleCall EXCEPT !.pc = "running", !.mode = "replace", !.sel = S,
                                 !.todo = SortedSeq(S), !.targets = target_ts,
                                 !.replacements = (X :> NamedTensor(X2))]
  /\ info' = EmptyInfo
  /\ dst' = SourceAsGraph
  /\ UNCHANGED engineFrame

\* graph_replace(target_ts, {X: X2}): the closure is copied into the graph
\* itself, X aliased to X2 in the map
graph_replace(target_ts, X, X2) ==
  /\ call.pc = "idle"
  /\ X # X2
  /\ LET S == ReplaceClosure(target_ts, {X})
     IN call' = [IdleCall EXCEPT !.pc = "running", !.mode = "replace", !.sel = S,
                                 !.todo = SortedSeq(S), !.targets = target_ts,
                                 !.replacements = (X :> NamedTensor(X2))]
  /\ info' = [transformed_ops |-> EmptyDict, transformed_ts |-> (X :> NamedTensor(X2))]
  /\ dst' = SourceAsGraph
  /\ UNCHANGED engineFrame

(***************************************************************************)
(* SpecCopy: pge.copy on a source graph of NumNodes nodes in which every   *)
(* node reads at most one tensor and at most two control edges exist, in   *)
(* either direction of the copy order.                                     *)
(***************************************************************************)
EarlierTensors(n) == {<<m, 0>> : m \in 1..(n - 1)}

ControlPairs == {p \in NodeIds \X NodeIds : p[1] # p[2]}

\* control_inputs from a set of edges <<d, c>>: d is a control input of c
CtrlFromEdges(E) == [c \in NodeIds |-> SortedSeq({d \in NodeIds : <<d, c>> \in E})]

Scopes == {<<>>, <<"i">>}

InitEngine ==
  /\ nodes = SortedSeq(NodeIds)
  /\ version = 0
  /\ _control_outputs = EmptyDict
  /\ _version = 0
  /\ co_call = [op |-> "__init__", arg |-> None, ret |-> None]
  /\ IdleEngine
  /\ IdleUtil
  /\ IdleTree
  /\ IdleCodec

InitCopy ==
  /\ InitEngine
  /\ inputs \in {f \in [NodeIds -> SeqsUpTo({<<m, 0>> : m \in NodeIds}, 1)] :
                   \A n \in NodeIds : Range(f[n]) \subseteq EarlierTensors(n)}
  /\ \E E \in {F \in SUBSET ControlPairs : Cardinality(F) <= 2} :
       control_inputs = CtrlFromEdges(E)

NextCopy ==
  \/ \E S \in (SUBSET NodeIds) \ {{}}, scope \in Scopes : copy(S, scope)
  \/ copy_node
  \/ connect_control

SpecCopy == InitCopy /\ [][NextCopy]_vars

(***************************************************************************)
(* SpecReplace: graph_replace of one or two targets and one replacement on *)
(* a graph of NumNodes nodes, each reading at most two tensors.            *)
(***************************************************************************)
AllTensors == {<<m, 0>> : m \in NodeIds}

InitReplace ==
  /\ InitEngine
  /\ inputs \in {f \in [NodeIds -> SeqsUpTo(AllTensors, 2)] :
                   \A n \in NodeIds : Range(f[n]) \subseteq EarlierTensors(n)}
  /\ control_inputs = [n \in NodeIds |-> <<>>]

NextReplace ==
  \/ \E target_ts \in SeqsUpTo(AllTensors, 2) \ {<<>>}, X, X2 \in AllTensors :
       graph_replace(target_ts, X, X2)
  \/ copy_node
  \/ connect_control

SpecReplace == InitReplace /\ [][NextReplace]_vars

(***************************************************************************)
(* SpecTree: a tree is nested up to MaxDepth deep, then flatten_tree or    *)
(* transform_tree is called on it.                                         *)
(***************************************************************************)
BaseTrees == {Leaf(0), Leaf(1), NodeObj(0), List(<<>>), Str(<<"a">>), SelfList}

IdleIndex ==
  /\ nodes = <<>>
  /\ control_inputs = [n \in NodeIds |-> <<>>]
  /\ inputs = [n \in NodeIds |-> <<>>]
  /\ version = 0
  /\ _control_outputs = EmptyDict
  /\ _version = 0
  /\ co_call = [op |-> "__init__", arg |-> None, ret |-> None]

InitTree ==
  /\ IdleIndex
  /\ IdleEngine
  /\ IdleUtil
  /\ IdleCodec
  /\ tree \in BaseTrees
  /\ walk = NoWalk

NextTree ==
  \/ \E w \in Wraps : wrap(w[1], w[2])
  \/ call_flatten_tree
  \/ \E fn \in Fns, iterable_type \in {"tuple", "list"} : call_transform_tree(fn, iterable_type)

SpecTree == InitTree /\ [][NextTree]_vars

(***************************************************************************)
(* SpecCodec: a Python value is encoded with python_type_to_attr_value and *)
(* the message is decoded with attr_value_to_python_type.                  *)
(***************************************************************************)
Scalars ==
  {PyStr(<<>>), PyStr(<<97>>), PyStr(<<233, 97>>),
   PyInt(0), PyInt(1), PyInt(-3),
   PyFloat(0), PyFloat(1), PyFloat(16777217),
   PyBool(TRUE), PyBool(FALSE),
   PyDType(1), PyTensorShape(<<>>), PyTensorShape(<<2, -1>>),
   PyNdarray(<<1, 2>>)}

ElemValues ==
  {PyStr(<<97>>), PyInt(1), PyFloat(1), PyBool(TRUE), PyDType(1),
   PyTensorShape(<<2>>), PyNdarray(<<1>>), PyNone, PyList(<<>>)}

PyValues ==
  Scalars
  \cup {PyNone, PyAttrValue(EmptyAttrValue),
        PyAttrValue([EmptyAttrValue EXCEPT !.which = "i", !.i = 1])}
  \cup {PyList(es) : es \in SeqsUpTo(ElemValues, MaxListLen)}
  \cup {PyTuple(es) : es \in SeqsUpTo(ElemValues, MaxListLen)}

InitCodec ==
  /\ IdleIndex
  /\ IdleEngine
  /\ IdleUtil
  /\ IdleTree
  /\ value \in PyValues
  /\ codec = NoCodec

NextCodec ==
  \/ call_python_type_to_attr_value
  \/ call_attr_value_to_python_type

SpecCodec == InitCodec /\ [][NextCodec]_vars

(***************************************************************************)
(* SpecNames: placeholder names generated and re-derived.                  *)
(***************************************************************************)
PhNodeNames ==
  {<<"a">>, <<"s", "/", "a">>, <<"g", "e", "p", "h">>,
   <<"g", "e", "p", "h", "_", "_", "a", "_", "0">>,
   <<"s", "/", "g", "e", "p", "h", "_", "_", "a", "_", "0">>,
   <<"p", "_", "a">>}

PhIndexes == {0, 1, 12}

PhTensors ==
  {NoTensor} \cup {[node_name |-> n, value_index |-> i] : n \in PhNodeNames, i \in PhIndexes}

PhScopes == {NoScope, <<>>, <<"s">>, <<"s", "/">>, <<"s", "/", "u">>}

PhPrefixes == {_DEFAULT_PLACEHOLDER_PREFIX, <<"p">>}

InitNames ==
  /\ IdleIndex
  /\ IdleEngine
  /\ IdleTree
  /\ IdleCodec
  /\ IdleUtil

NextNames ==
  \/ \E t \in PhTensors, scope \in PhScopes, prefix \in PhPrefixes :
       call_placeholder_name(t, scope, prefix)
  \/ \E i \in PhIndexes : rederive(i)

SpecNames == InitNames /\ [][NextNames]_vars

(***************************************************************************)
(* SpecFind: one find_corresponding_elem call.                             *)
(***************************************************************************)
FceNodeNames == {<<"a">>, <<"s", "/", "a">>, <<"s", "a">>}

FceTargets ==
  {[kind |-> k, name |-> IF k = "Tensor" THEN TensorName(n) ELSE n] :
     k \in {"Tensor", "Node", "Graph"}, n \in FceNodeNames}

FceGraphs == {{}, {<<"a">>, <<"d", "/", "a">>}, {<<"s", "/", "a">>, <<"d", "/", "s", "a">>}}

FceScopes == {<<>>, <<"s">>, <<"s", "/">>}

InitFind ==
  /\ IdleIndex
  /\ IdleEngine
  /\ IdleTree
  /\ IdleCodec
  /\ IdleUtil

NextFind ==
  \E target \in FceTargets, dst_graph \in FceGraphs,
     dst_scope \in {<<>>, <<"d">>}, src_scope \in FceScopes :
       call_find_corresponding_elem(target, dst_graph, dst_scope, src_scope)

SpecFind == InitFind /\ [][NextFind]_vars

(***************************************************************************)
(* SpecUnique: one get_unique_graph call.                                  *)
(***************************************************************************)
GugElems ==
  {[kind |-> k, graph |-> g] : k \in {"Node", "Tensor"}, g \in {1, 2}}
  \cup {[kind |-> "int", graph |-> 0]}

GugTops ==
  {[kind |-> "list", graph |-> 0, elems |-> es] : es \in SeqsUpTo(GugElems, MaxTops)}
  \cup {[kind |-> "Graph", graph |-> 1, elems |-> <<>>],
        [kind |-> "Node", graph |-> 1, elems |-> <<>>],
        [kind |-> "int", graph |-> 0, elems |-> <<>>]}

GugCheckTypes ==
  {GugTypesNone,
   [given |-> TRUE, bare |-> TRUE, types |-> {"Tensor"}],
   [given |-> TRUE, bare |-> FALSE, types |-> {"Node", "Tensor"}]}

InitUnique ==
  /\ IdleIndex
  /\ IdleEngine
  /\ IdleTree
  /\ IdleCodec
  /\ IdleUtil

NextUnique ==
  \E tops \in GugTops, check_types \in GugCheckTypes, none_if_empty \in BOOLEAN :
    call_get_unique_graph(tops, check_types, none_if_empty)

SpecUnique == InitUnique /\ [][NextUnique]_vars

\* the nodes of the graph that list n among their control inputs
ControlConsumers(n) == {c \in Range(nodes) : InSeq(n, control_inputs[c])}

(***************************************************************************)
(* Claims about ControlOutputs, checked under Spec.                        *)
(***************************************************************************)
\* C1: right after ControlOutputs is constructed or update() has run, get(n)
\* is, for every node n, a duplicate-free sequence whose elements are exactly
\* the graph nodes that list n among their control inputs (empty when none
\* does); nothing of an earlier graph version is left in it.
C1_IndexMatchesGraph ==
  co_call.op \in {"__init__", "update"} =>
    \A n \in NodeIds :
      LET r == Lookup(_control_outputs, n)
      IN NoDup(r) /\ Range(r) = ControlConsumers(n)

\* update() has rebuilt the index of an edited graph in which a node lists
\* the same control input twice and a key of the index has two entries
C1_Witness ==
  /\ co_call.op \in {"__init__", "update"}
  /\ version >= 2
  /\ \E c \in Range(nodes) : ~NoDup(control_inputs[c])
  /\ \E n \in DOMAIN _control_outputs : Len(_control_outputs[n]) >= 1

WholeCopyDone ==
  /\ call.pc = "done"
  /\ call.mode = "copy"
  /\ call.sel = NodeIds
  /\ call.dst_scope = <<>>

\* C3: after a whole graph is copied into an empty destination graph with the
\* default handler and empty scopes, every node and every tensor x of it has
\* a transformed(x) that is an element of the destination graph with the name
\* of x, original(transformed(x)) is x, and the destination holds nothing else.
C3_CopyIsBijection ==
  WholeCopyDone =>
    /\ \A n \in NodeIds :
         LET n_ == transformed_op(n)
         IN /\ n_ # <<>>
            /\ InSeq(n_[1], dst.nodes)
            /\ n_[1] = NodeName(n)
            /\ original_op(n_[1]) = <<n>>
    /\ \A n \in NodeIds :
         LET t_ == transformed_t(<<n, 0>>)
         IN /\ t_ # <<>>
            /\ InSeq(t_[1][1], dst.nodes)
            /\ t_[1] = NamedTensor(<<n, 0>>)
            /\ original_t(t_[1]) = <<(<<n, 0>>)>>
    /\ Range(dst.nodes) = {NodeName(n) : n \in NodeIds}
    /\ NoDup(dst.nodes)

\* a finished whole-graph copy of a graph with a data edge and a control edge
C3_Witness ==
  /\ WholeCopyDone
  /\ \E n \in NodeIds : inputs[n] # <<>>
  /\ \E n \in NodeIds : control_inputs[n] # <<>>
  /\ Len(dst.nodes) = NumNodes

C4_SecondPass ==
  (call.pc = "running" /\ call.mode = "copy") =>
    \A nm \in Range(dst.nodes) : dst.control_inputs[nm] = <<>>

RECURSIVE Uses(_, _)
Uses(n, X) ==
  \E i \in 1..Len(inputs[n]) : inputs[n][i] = X \/ Uses(inputs[n][i][1], X)

\* n is node from, or from reaches n along data inputs other than tensor X
RECURSIVE ReachesAvoiding(_, _, _)
ReachesAvoiding(from, n, X) ==
  \/ from = n
  \/ \E i \in 1..Len(inputs[from]) :
       inputs[from][i] # X /\ ReachesAvoiding(inputs[from][i][1], n, X)

ReplaceDone == call.pc = "done" /\ call.mode = "replace"

ReplacedKey == CHOOSE k \in DOMAIN call.replacements : TRUE

\* C5: graph_replace(T, {X -> X2}) cuts at X: the node producing X is not
\* copied, every copied node is reached from a target without passing X, a
\* copied input slot that read X reads X2 itself, a copied input slot reading
\* a tensor that does not depend on X reads that same tensor, and the nodes
\* that were in the graph keep their inputs.
C5_ReplaceCutsAtKey ==
  ReplaceDone =>
    LET X == ReplacedKey
        X2 == call.replacements[X]
        copied == DOMAIN info.transformed_ops
    IN /\ X[1] \notin copied
       /\ \A n \in copied :
            \E i \in 1..Len(call.targets) :
              call.targets[i] # X /\ ReachesAvoiding(call.targets[i][1], n, X)
       /\ \A n \in copied :
            LET n_ == info.transformed_ops[n]
            IN /\ Len(dst.inputs[n_]) = Len(inputs[n])
               /\ \A i \in 1..Len(inputs[n]) :
                    /\ inputs[n][i] = X => dst.inputs[n_][i] = X2
                    /\ (inputs[n][i] # X /\ ~Uses(inputs[n][i][1], X)) =>
                         dst.inputs[n_][i] = NamedTensor(inputs[n][i])
       /\ \A n \in NodeIds :
            dst.inputs[NodeName(n)] =
              [i \in 1..Len(inputs[n]) |-> NamedTensor(inputs[n][i])]

\* a finished graph_replace of one target whose node reads X and a tensor Y
\* that does not depend on X, X2 being a third tensor
C5_Witness ==
  /\ ReplaceDone
  /\ Len(call.targets) = 1
  /\ LET X == ReplacedKey
         T == call.targets[1]
     IN /\ T[1] \in DOMAIN info.transformed_ops
        /\ Len(inputs[T[1]]) = 2
        /\ inputs[T[1]][2] = X
        /\ inputs[T[1]][1] # X
        /\ dst.inputs[info.transformed_ops[T[1]]] =
             <<NamedTensor(inputs[T[1]][1]), call.replacements[X]>>

\* C6: a target that does not depend on the replaced tensor is returned as
\* the original tensor itself and its node is not copied, also when another
\* target of the call is copied and reads it; a target that depends on the
\* replaced tensor is returned as the output of a copy, under a new name.
C6_UnaffectedTargetAliased ==
  ReplaceDone =>
    \A i \in 1..Len(call.targets) :
      LET t == call.targets[i]
          X == ReplacedKey
      IN /\ (t # X /\ ~Uses(t[1], X)) =>
              /\ call.result[i] = NamedTensor(t)
              /\ t[1] \notin DOMAIN info.transformed_ops
         /\ (t # X /\ Uses(t[1], X)) =>
              /\ t[1] \in DOMAIN info.transformed_ops
              /\ call.result[i] = <<info.transformed_ops[t[1]], 0>>
              /\ call.result[i][1] \notin {NodeName(n) : n \in NodeIds}
              /\ InSeq(call.result[i][1], dst.nodes)

\* graph_replace([m, c], ...) where c reads m and the replaced tensor, and m
\* does not depend on it: m comes back itself, c as a copy that reads m
C6_Witness ==
  /\ ReplaceDone
  /\ Len(call.targets) = 2
  /\ LET m == call.targets[1]
         c == call.targets[2]
         X == ReplacedKey
     IN /\ m # X /\ ~Uses(m[1], X)
        /\ InSeq(m, inputs[c[1]]) /\ InSeq(X, inputs[c[1]])
        /\ call.result[1] = NamedTensor(m)
        /\ call.result[2] = <<NodeName(c[1]) \o <<"_", "1">>, 0>>
        /\ InSeq(NamedTensor(m), dst.inputs[call.result[2][1]])

(***************************************************************************)
(* Tree walkers                                                            *)
(***************************************************************************)
\* a container that contains itself, or a non-empty string (each of its
\* characters is a string that iterates to itself), anywhere in t
RECURSIVE SelfReferential(_)
SelfReferential(t) ==
  \/ t.k = "selflist"
  \/ t.k = "str" /\ t.names # <<>>
  \/ \E i \in 1..Len(t.items) : SelfReferential(t.items[i])

\* t is built from lists, tuples, named tuples, dicts and ordered dicts
\* over non-iterable leaves
RECURSIVE KnownVariants(_)
KnownVariants(t) ==
  \/ t.k \in {"leaf", "Node"}
  \/ /\ t.k \in {"list", "tuple", "namedtuple", "dict", "OrderedDict"}
     /\ \A i \in 1..Len(t.items) : KnownVariants(t.items[i])

\* t with every leaf x replaced by fn(x), nothing else touched
RECURSIVE MapLeaves(_, _)
MapLeaves(t, fn) ==
  IF t.k \in {"leaf", "Node"} THEN ApplyFn(fn, t)
  ELSE [t EXCEPT !.items = [i \in 1..Len(t.items) |-> MapLeaves(t.items[i], fn)]]

\* [fn(x) for x in flatten_tree(tree)]
MappedLeaves(fn) ==
  LET f == flatten_tree(tree, <<>>, 1)
  IN [i \in 1..Len(f.out) |-> ApplyFn(fn, f.out[i])]

FlattenAgrees ==
  /\ walk.err = None
  /\ flatten_tree(tree, <<>>, 1).err = None
  /\ flatten_tree(walk.out, <<>>, 1) = Returned(MappedLeaves(walk.fn))

\* fn returns a leaf (a value that is not itself iterable) for every leaf
\* of the tree
LeafValued(fn) ==
  LET f == flatten_tree(tree, <<>>, 1)
  IN \A i \in 1..Len(f.out) : ~is_iterable(ApplyFn(fn, f.out[i]))

\* C7 as stated: for every tree without self-reference and EVERY leaf
\* function fn, flatten_tree(transform_tree(t, fn)) is
\* [fn(x) for x in flatten_tree(t)].
C7_FlattenOfTransformAnyFn ==
  (walk.op = "transform_tree" /\ ~SelfReferential(tree)) => FlattenAgrees

\* C7: for every tree without self-reference and every leaf function fn
\* whose results are themselves leaves (not iterable),
\* flatten_tree(transform_tree(t, fn)) is [fn(x) for x in flatten_tree(t)],
\* in the same depth-first order.
C7_FlattenOfTransform ==
  (walk.op = "transform_tree" /\ ~SelfReferential(tree) /\ LeafValued(walk.fn))
    => FlattenAgrees

C7_Witness ==
  /\ walk.op = "transform_tree"
  /\ walk.fn = "shift"
  /\ ~SelfReferential(tree)
  /\ Depth(tree) >= 2
  /\ isinstance_dict(tree)
  /\ Len(flatten_tree(tree, <<>>, 1).out) >= 3

\* C8: on a tree of dicts, ordered dicts, named tuples, tuples and lists,
\* transform_tree returns the same tree (same nesting, same container type,
\* same keys and fields at every level) with each leaf x replaced by fn(x).
C8_SameShapeAndVariant ==
  (walk.op = "transform_tree" /\ KnownVariants(tree))
    => (walk.err = None /\ walk.out = MapLeaves(tree, walk.fn))

C8_Witness ==
  /\ walk.op = "transform_tree"
  /\ KnownVariants(tree)
  /\ Depth(tree) >= 2
  /\ tree.k = "namedtuple"
  /\ tree.tag = 2
  /\ tree.items[2].k = "OrderedDict"
  /\ walk.out.items[2].k = "OrderedDict"

\* C9 as stated: on a self-referential input flatten_tree and
\* transform_tree stop with an InvalidInput error.
C9_StopsWithInvalidInput ==
  (walk.op \in {"flatten_tree", "transform_tree"} /\ SelfReferential(tree))
    => walk.err = "InvalidInput"

(***************************************************************************)
(* AttrValue codec                                                         *)
(***************************************************************************)
\* Python's a == b: int, float and bool compare by number, a list never
\* equals a tuple, everything else by type and content
RECURSIVE PyEq(_, _)
PyEq(a, b) ==
  IF a.t \in {"int", "float", "bool"} /\ b.t \in {"int", "float", "bool"}
  THEN a.x = b.x
  ELSE /\ a.t = b.t
       /\ a.x = b.x
       /\ a.av = b.av
       /\ Len(a.elems) = Len(b.elems)
       /\ \A i \in 1..Len(a.elems) : PyEq(a.elems[i], b.elems[i])

\* a string, integer, float, boolean, datatype, shape, dense constant, or
\* a sequence of these
RECURSIVE Representable(_)
Representable(v) ==
  \/ v.t \in {"str", "int", "float", "bool", "DType", "TensorShape", "ndarray"}
  \/ /\ v.t \in {"list", "tuple"}
     /\ \A i \in 1..Len(v.elems) : Representable(v.elems[i])

\* C10 as stated: for every representable value v that encode accepts,
\* decode(encode(v)) succeeds and equals v.
C10_DecodeInvertsEncode ==
  (codec.op = "decode" /\ Representable(value))
    => (codec.err = None /\ PyEq(codec.out, value))

\* the member of the oneof that matches a scalar Python type
VariantOf(t) ==
  CASE t = "str" -> "s"
    [] t = "int" -> "i"
    [] t = "float" -> "f"
    [] t = "bool" -> "b"
    [] t = "DType" -> "type"
    [] t = "TensorShape" -> "shape"
    [] OTHER -> "tensor"

ScalarTypes == {"str", "int", "float", "bool", "DType", "TensorShape", "ndarray"}

\* how many elements of type t the sequence elems holds
CountOfType(elems, t) == Cardinality({i \in 1..Len(elems) : elems[i].t = t})

\* C11 as stated: encode puts a scalar in the member matching its own type
\* (a boolean in b, not in i), and every element of a list in the typed
\* sub-list matching its own type.
C11_OwnVariant ==
  (codec.op = "encode" /\ codec.err = None) =>
    /\ value.t \in ScalarTypes => codec.av.which = VariantOf(value.t)
    /\ value.t \in {"list", "tuple"} =>
         /\ codec.av.which = "list"
         /\ Len(codec.av.list.b) = CountOfType(value.elems, "bool")
         /\ Len(codec.av.list.i) = CountOfType(value.elems, "int")

\* a value with no member of the oneof for it; for an element of a
\* sequence that includes a nested sequence, ListValue having no list field
Unsupported(v) == v.t \notin ScalarTypes

Basename(name) ==
  LET k == CHOOSE k \in 0..Len(name) :
             /\ \A j \in (k + 1)..Len(name) : name[j] # "/"
             /\ k > 0 => name[k] = "/"
  IN SubSeq(name, k + 1, Len(name))

\* a scope as a name prefix: empty, or ending with exactly the slash it
\* had or was given
Finalized(scope) ==
  IF scope = <<>> THEN <<>>
  ELSE IF scope[Len(scope)] = "/" THEN scope
  ELSE scope \o <<"/">>

\* the decimal digits of an output index
Decimal(i) == IF i = 0 THEN <<"0">> ELSE IF i = 1 THEN <<"1">> ELSE <<"1", "2">>

\* the basename starts with prefix + "__"
CarriesPrefix(name, prefix) ==
  LET p == prefix \o <<"_", "_">>
  IN Len(name) >= Len(p) /\ \A j \in 1..Len(p) : name[j] = p[j]

\* C13: for a tensor t whose node basename does not carry the prefix and a
\* scope s, placeholder_name returns
\* finalize(s) + prefix + "__" + basename + "_" + value_index; for no tensor
\* it returns finalize(s) + prefix, and prefix alone when no scope is given.
C13_NameFormula ==
  ph_call.op = "placeholder_name" =>
    /\ (/\ ph_call.t # NoTensor
        /\ ph_call.scope # NoScope
        /\ ~CarriesPrefix(Basename(ph_call.t.node_name), ph_call.prefix))
         => ph_call.name =
              Finalized(ph_call.scope) \o ph_call.prefix \o <<"_", "_">>
                \o Basename(ph_call.t.node_name) \o <<"_">>
                \o Decimal(ph_call.t.value_index)
    /\ ph_call.t = NoTensor
         => ph_call.name =
              (IF ph_call.scope = NoScope THEN <<>> ELSE Finalized(ph_call.scope))
                \o ph_call.prefix

C13_Witness ==
  /\ ph_call.op = "placeholder_name"
  /\ ph_call.t = [node_name |-> <<"s", "/", "a">>, value_index |-> 12]
  /\ ph_call.scope = <<"s", "/", "u">>
  /\ ph_call.name = <<"s", "/", "u", "/", "g", "e", "p", "h", "_", "_", "a", "_", "1", "2">>

\* C14 as stated: deriving a placeholder name from an output of a node that
\* carries a generated placeholder name, under the same scope, returns that
\* name itself.
C14_Idempotent ==
  ph_call.op = "rederive" => ph_call.name = ph_call.prev

(***************************************************************************)
(* find_corresponding_elem                                                 *)
(***************************************************************************)
\* name begins with the characters of p
BeginsWith(name, p) == Len(name) >= Len(p) /\ \A j \in 1..Len(p) : name[j] = p[j]

\* the name the corresponding element must have
CorrespondingName ==
  Finalized(fce.dst_scope)
    \o SubSeq(fce.target.name, Len(Finalized(fce.src_scope)) + 1, Len(fce.target.name))

\* dst_graph has an element of the target's kind with that name
CorrespondingExists ==
  IF fce.target.kind = "Tensor"
  THEN \E n \in fce.dst_graph : TensorName(n) = CorrespondingName
  ELSE CorrespondingName \in fce.dst_graph

\* C15 as stated: for a tensor or node target whose name starts with
\* finalize(src_scope) the call returns the element of dst_graph of the same
\* kind named finalize(dst_scope) + (name without that prefix), or fails
\* with KeyError if there is none; when src_scope is not empty and the name
\* does not start with it the call fails with ValueError.
C15_PrefixMatching ==
  (fce.op = "find_corresponding_elem" /\ fce.target.kind \in {"Tensor", "Node"}) =>
    /\ BeginsWith(fce.target.name, Finalized(fce.src_scope)) =>
         IF CorrespondingExists
         THEN /\ fce.err = None
              /\ fce.out = [kind |-> fce.target.kind, name |-> CorrespondingName]
         ELSE fce.err = "KeyError"
    /\ (fce.src_scope # <<>> /\ ~BeginsWith(fce.target.name, Finalized(fce.src_scope)))
         => fce.err = "ValueError"

(***************************************************************************)
(* get_unique_graph                                                        *)
(***************************************************************************)
GugAllowed ==
  IF gug.check_types.given THEN gug.check_types.types ELSE {"Node", "Tensor"}

GugHasDisallowed ==
  \E i \in 1..Len(gug.tops.elems) : gug.tops.elems[i].kind \notin GugAllowed

GugHasTwoGraphs ==
  \E i, j \in 1..Len(gug.tops.elems) :
    /\ gug.tops.elems[i].kind \in GugAllowed
    /\ gug.tops.elems[j].kind \in GugAllowed
    /\ gug.tops.elems[i].graph # gug.tops.elems[j].graph

\* C16: get_unique_graph returns a graph g only if every element of tops is
\* of an allowed kind and belongs to g (or tops is g itself); it raises
\* TypeError when tops is not iterable or holds an element of a disallowed
\* kind, ValueError when two elements belong to different graphs (the first
\* offence met decides when both occur), ValueError when tops is empty, and
\* then returns nothing; with none_if_empty an empty tops returns None.
C16_UniqueGraph ==
  gug.op = "get_unique_graph" =>
    /\ gug.err \in {None, "TypeError", "ValueError"}
    /\ gug.err # None => gug.out = <<>>
    /\ (gug.err = None /\ gug.out # <<>> /\ gug.tops.kind # "Graph") =>
         /\ gug.tops.kind = "list"
         /\ \A i \in 1..Len(gug.tops.elems) :
              /\ gug.tops.elems[i].kind \in GugAllowed
              /\ <<gug.tops.elems[i].graph>> = gug.out
    /\ gug.tops.kind \notin {"Graph", "list"} => gug.err = "TypeError"
    /\ gug.tops.kind = "list" =>
         /\ (GugHasDisallowed /\ ~GugHasTwoGraphs) => gug.err = "TypeError"
         /\ (GugHasTwoGraphs /\ ~GugHasDisallowed) => gug.err = "ValueError"
         /\ (GugHasDisallowed \/ GugHasTwoGraphs) => gug.err # None
         /\ gug.tops.elems = <<>> =>
              IF gug.none_if_empty THEN gug.err = None /\ gug.out = <<>>
              ELSE gug.err = "ValueError"
         /\ (gug.tops.elems # <<>> /\ ~GugHasDisallowed /\ ~GugHasTwoGraphs)
              => (gug.err = None /\ gug.out = <<gug.tops.elems[1].graph>>)

C16_Witness ==
  /\ gug.op = "get_unique_graph"
  /\ gug.err = "ValueError"
  /\ Len(gug.tops.elems) = 3
  /\ gug.tops.elems[1] = [kind |-> "Node", graph |-> 1]
  /\ gug.tops.elems[2] = [kind |-> "Tensor", graph |-> 1]
  /\ gug.tops.elems[3] = [kind |-> "Tensor", graph |-> 2]

(***************************************************************************)
(* ControlOutputs.update, get, get_all: what they change                   *)
(***************************************************************************)
\* the dictionary co holds exactly the control edges of the graph
HoldsControlEdges(co) ==
  /\ DOMAIN co = {d \in NodeIds : ControlConsumers(d) # {}}
  /\ \A d \in DOMAIN co : NoDup(co[d]) /\ Range(co[d]) = ControlConsumers(d)

\* C17: update() leaves the index and the stored version unchanged when the
\* stored version equals graph.version, and otherwise replaces the index by
\* one built from the graph and stores graph.version; after update() the
\* stored version is graph.version; get() and get_all() change neither the
\* index nor the stored version.
C17_UpdateIffStale ==
  [][/\ co_call'.op = "update" =>
          /\ _version' = version'
          /\ IF _version = version
             THEN UNCHANGED <<_control_outputs, _version>>
             ELSE HoldsControlEdges(_control_outputs')
     /\ co_call'.op \in {"get", "get_all"} => UNCHANGED <<_control_outputs, _version>>
    ]_vars

C17_Witness ==
  /\ co_call.op = "update"
  /\ _version = version
  /\ version >= 2
  /\ \E d \in DOMAIN _control_outputs : Len(_control_outputs[d]) = 2

(***************************************************************************)
(* transform_tree: iterable_type                                           *)
(***************************************************************************)
\* in the result o of transforming t, every iterable of unknown kind of t
\* has become a ty, at whatever depth it lies
RECURSIVE RebuiltAs(_, _, _)
RebuiltAs(t, o, ty) ==
  \/ t.k \in {"leaf", "Node"}
  \/ /\ t.k = "ListView" => o.k = ty
     /\ Len(o.items) = Len(t.items)
     /\ \A i \in 1..Len(t.items) : RebuiltAs(t.items[i], o.items[i], ty)

\* C18 as stated: transform_tree(tree, fn, iterable_type) rebuilds every
\* iterable of unknown kind as an iterable_type, nested ones as well as the
\* one at the root.
C18_IterableTypeAtEveryDepth ==
  (walk.op = "transform_tree" /\ walk.err = None /\ ~SelfReferential(tree))
    => RebuiltAs(tree, walk.out, walk.iterable_type)

====
